---- MODULE Spec2Model ----
(***************************************************************************)
(* Model of fan_control.py (GPUFanController): the speed policy, the       *)
(* smoothing engine, the control loop of control_mode / monitor_mode and   *)
(* the shutdown path (_signal_handler, _emergency_shutdown,                *)
(* _graceful_shutdown).                                                    *)
(*                                                                         *)
(* Temperatures are integers in tenths of a degree Celsius (the code holds *)
(* floats: psutil readings, hwmon millidegrees / 1000); powers are whole   *)
(* watts; speeds are integer percents; duty values are integers 0..pwm_max.*)
(***************************************************************************)
EXTENDS Integers, Sequences, FiniteSets, TLC

VARIABLES
    config,               \* the loaded configuration and the environment facts fixed for a run
    previous_fan_speeds,  \* self.previous_fan_speeds: fan name -> percent (a dict, maybe partial)
    shutdown_requested,   \* self._shutdown_requested
    cpu_temp,             \* local of get_system_status: the CPU temperature read so far
    status,               \* the SystemStatus of the current tick
    targets,              \* the unsmoothed speeds computed by the policy in the current tick
    reasons,              \* the list of FanControlReason of the current tick
    pwm,                  \* the duty value file of each fan
    pwm_enable,           \* the <pwm>_enable file of each fan: 1 manual, 2 automatic
    frame,                \* the frame that is executing: its function, its place, its loop index
    below,                \* what a SystemExit raised by the executing handler meets underneath
    signals,              \* number of termination signals delivered so far
    runs,                 \* number of times _graceful_shutdown was entered
    dones,                \* number of times _graceful_shutdown logged its completion
    attMax,               \* fans whose force-max try block was entered in the latest run
    attRel,               \* fans whose release was attempted in the latest run
    okRel,                \* fans whose release write succeeded in the latest run
    wrote                 \* whether any write to an actuator file was issued

vars == <<config, previous_fan_speeds, shutdown_requested, cpu_temp, status, targets,
          reasons, pwm, pwm_enable, frame, below, signals, runs, dones, attMax, attRel, okRel, wrote>>

-----------------------------------------------------------------------------
(* Bounds of the model *)

\* Termination signals (SIGTERM / SIGINT) delivered in one run of the process.
MaxSignals == 2

-----------------------------------------------------------------------------
(* The fixed topology *)

Fans == {"cpu", "gpu1", "gpu2", "vrm"}

\* Iteration order of self.fans.items() and of the reasons list.
FanOrder == <<"cpu", "gpu1", "gpu2", "vrm">>

Min(a, b) == IF a <= b THEN a ELSE b

Max(a, b) == IF a >= b THEN a ELSE b

Abs(a) == IF a >= 0 THEN a ELSE -a

\* Python's int() of the real quotient n / d (d > 0): truncation toward zero.
IntDiv(n, d) == IF n >= 0 THEN n \div d ELSE -((-n) \div d)

-----------------------------------------------------------------------------
(* Speed policy *)

GpuCritical(st, cfg) ==
    \/ st.gpu1_temp >= cfg.gpu_critical_temp
    \/ st.gpu2_temp >= cfg.gpu_critical_temp

GpuPowerCritical(st, cfg) ==
    \/ st.gpu1_power >= cfg.gpu_critical_power
    \/ st.gpu2_power >= cfg.gpu_critical_power

\* _calculate_cpu_fan_speed without the GPU temperature override
CalculateCpuFanSpeedNoTempOverride(st, cfg) ==
    IF GpuPowerCritical(st, cfg) THEN <<100, "gpu_power_critical">>
    ELSE IF st.cpu_temp >= cfg.cpu_max_temp THEN <<100, "cpu_temp_critical">>
    ELSE IF st.cpu_temp >= cfg.cpu_min_temp
         THEN <<IntDiv(cfg.cpu_min_speed * (cfg.cpu_max_temp - cfg.cpu_min_temp)
                         + (st.cpu_temp - cfg.cpu_min_temp) * (100 - cfg.cpu_min_speed),
                       cfg.cpu_max_temp - cfg.cpu_min_temp),
                "cpu_linear">>
    ELSE <<cfg.cpu_min_speed, "cpu_min_speed">>

\* _calculate_cpu_fan_speed interpolating from the wrong end of the zone
CalculateCpuFanSpeedDescending(st, cfg) ==
    IF GpuPowerCritical(st, cfg) THEN <<100, "gpu_power_critical">>
    ELSE IF GpuCritical(st, cfg) THEN <<100, "gpu_temp_critical">>
    ELSE IF st.cpu_temp >= cfg.cpu_max_temp THEN <<100, "cpu_temp_critical">>
    ELSE IF st.cpu_temp >= cfg.cpu_min_temp
         THEN <<IntDiv(cfg.cpu_min_speed * (cfg.cpu_max_temp - cfg.cpu_min_temp)
                         + (cfg.cpu_max_temp - st.cpu_temp) * (100 - cfg.cpu_min_speed),
                       cfg.cpu_max_temp - cfg.cpu_min_temp),
                "cpu_linear">>
    ELSE <<cfg.cpu_min_speed, "cpu_min_speed">>

\* _calculate_cpu_fan_speed rounding the interpolation to the nearest percent
CalculateCpuFanSpeedRounded(st, cfg) ==
    IF GpuPowerCritical(st, cfg) THEN <<100, "gpu_power_critical">>
    ELSE IF GpuCritical(st, cfg) THEN <<100, "gpu_temp_critical">>
    ELSE IF st.cpu_temp >= cfg.cpu_max_temp THEN <<100, "cpu_temp_critical">>
    ELSE IF st.cpu_temp >= cfg.cpu_min_temp
         THEN <<IntDiv(2 * (cfg.cpu_min_speed * (cfg.cpu_max_temp - cfg.cpu_min_temp)
                              + (st.cpu_temp - cfg.cpu_min_temp) * (100 - cfg.cpu_min_speed))
                         + (cfg.cpu_max_temp - cfg.cpu_min_temp),
                       2 * (cfg.cpu_max_temp - cfg.cpu_min_temp)),
                "cpu_linear">>
    ELSE <<cfg.cpu_min_speed, "cpu_min_speed">>

\* _calculate_cpu_fan_speed: <<speed, reason>>
CalculateCpuFanSpeed(st, cfg) ==
    IF GpuPowerCritical(st, cfg) THEN <<100, "gpu_power_critical">>
    ELSE IF GpuCritical(st, cfg) THEN <<100, "gpu_temp_critical">>
    ELSE IF st.cpu_temp >= cfg.cpu_max_temp THEN <<100, "cpu_temp_critical">>
    ELSE IF st.cpu_temp >= cfg.cpu_min_temp
         THEN <<IntDiv(cfg.cpu_min_speed * (cfg.cpu_max_temp - cfg.cpu_min_temp)
                         + (st.cpu_temp - cfg.cpu_min_temp) * (100 - cfg.cpu_min_speed),
                       cfg.cpu_max_temp - cfg.cpu_min_temp),
                "cpu_linear">>
    ELSE <<cfg.cpu_min_speed, "cpu_min_speed">>

\* _calculate_gpu_fan_speed with the override tested on the fan's own GPU only
CalculateGpuFanSpeedOwnOnly(gpu_temp, st, cfg) ==
    LET individual ==
            IF gpu_temp <= cfg.gpu_min_temp THEN <<0, "gpu_normal">>
            ELSE IF gpu_temp >= cfg.gpu_max_temp THEN <<100, "gpu_max">>
            ELSE <<IntDiv((gpu_temp - cfg.gpu_min_temp) * 100,
                          cfg.gpu_max_temp - cfg.gpu_min_temp), "gpu_linear">>
    IN  IF gpu_temp >= cfg.gpu_critical_temp THEN <<100, "gpu_emergency">> ELSE individual

\* _calculate_gpu_fan_speed: <<speed, reason>>
CalculateGpuFanSpeed(gpu_temp, st, cfg) ==
    LET individual ==
            IF gpu_temp <= cfg.gpu_min_temp THEN <<0, "gpu_normal">>
            ELSE IF gpu_temp >= cfg.gpu_max_temp THEN <<100, "gpu_max">>
            ELSE <<IntDiv((gpu_temp - cfg.gpu_min_temp) * 100,
                          cfg.gpu_max_temp - cfg.gpu_min_temp), "gpu_linear">>
    IN  IF GpuCritical(st, cfg) THEN <<100, "gpu_emergency">> ELSE individual

\* _calculate_vrm_fan_speed with the CPU threshold tested strictly
CalculateVrmFanSpeedStrict(st, cfg) ==
    IF \/ st.gpu1_power >= cfg.vrm_activation_power
       \/ st.gpu2_power >= cfg.vrm_activation_power
    THEN <<100, "gpu_power_critical">>
    ELSE IF st.cpu_temp > cfg.vrm_cpu_temp_threshold THEN <<100, "cpu_temp_critical">>
    ELSE IF \/ st.gpu1_temp >= cfg.vrm_gpu_temp_threshold
            \/ st.gpu2_temp >= cfg.vrm_gpu_temp_threshold
         THEN <<100, "gpu_temp_critical">>
    ELSE <<cfg.vrm_default_speed, "vrm_default">>

\* _calculate_vrm_fan_speed: <<speed, reason>>
CalculateVrmFanSpeed(st, cfg) ==
    IF \/ st.gpu1_power >= cfg.vrm_activation_power
       \/ st.gpu2_power >= cfg.vrm_activation_power
    THEN <<100, "gpu_power_critical">>
    ELSE IF st.cpu_temp >= cfg.vrm_cpu_temp_threshold THEN <<100, "cpu_temp_critical">>
    ELSE IF \/ st.gpu1_temp >= cfg.vrm_gpu_temp_threshold
            \/ st.gpu2_temp >= cfg.vrm_gpu_temp_threshold
         THEN <<100, "gpu_temp_critical">>
    ELSE <<cfg.vrm_default_speed, "vrm_default">>

\* _percent_to_pwm
PercentToPwm(percent, cfg) == IntDiv(percent * cfg.pwm_max, 100)

\* One FanControlReason; reason is the policy's text, info the smoothing annotation
\* appended to it (<<>> is the empty string).
Reason(fan, speed, text, info, cfg) ==
    [fan_name |-> fan, speed_percent |-> speed, pwm_value |-> PercentToPwm(speed, cfg),
     reason |-> text, info |-> info, is_emergency |-> FALSE]

\* The four unsmoothed decisions of calculate_fan_speeds, in the order it appends them.
PolicyDecisions(st, cfg) ==
    <<CalculateCpuFanSpeed(st, cfg),
      CalculateGpuFanSpeed(st.gpu1_temp, st, cfg),
      CalculateGpuFanSpeed(st.gpu2_temp, st, cfg),
      CalculateVrmFanSpeed(st, cfg)>>

-----------------------------------------------------------------------------
(* Smoothing engine *)

\* The zone's step limits: <<max_change_up, max_change_down, fan_type>>
StepLimits(fan, cfg) ==
    IF fan = "cpu" THEN <<cfg.cpu_max_change_up, cfg.cpu_max_change_down, "CPU">>
    ELSE IF fan \in {"gpu1", "gpu2"}
         THEN <<cfg.gpu_max_change_up, cfg.gpu_max_change_down, "GPU">>
    ELSE IF fan = "vrm" THEN <<cfg.vrm_max_change_up, cfg.vrm_max_change_down, "VRM">>
    ELSE <<20, 10, "other">>

\* _calculate_smoothed_speed that applies the whole difference
CalculateSmoothedSpeedUnlimited(current_speed, target_speed, fan, cfg) ==
    <<Max(0, Min(100, target_speed)), <<>> >>

\* _calculate_smoothed_speed taking the whole step of the zone in the direction
\* of the target, however close the target is
CalculateSmoothedSpeedOvershoot(current_speed, target_speed, fan, cfg) ==
    IF current_speed = target_speed THEN <<target_speed, <<>> >>
    ELSE
        LET lim == StepLimits(fan, cfg)
            actual_change == IF target_speed > current_speed THEN lim[1] ELSE -lim[2]
        IN  <<Max(0, Min(100, current_speed + actual_change)), <<>> >>

\* _calculate_smoothed_speed without the test for equality, taking the whole
\* downward step whenever the target is not above the current speed
CalculateSmoothedSpeedFullStepDown(current_speed, target_speed, fan, cfg) ==
    LET lim == StepLimits(fan, cfg)
        speed_diff == target_speed - current_speed
        actual_change == IF speed_diff > 0 THEN Min(speed_diff, lim[1]) ELSE -lim[2]
        smoothing_info ==
            IF speed_diff > 0
            THEN (IF actual_change < speed_diff THEN <<lim[3], "up", actual_change>>
                  ELSE <<>>)
            ELSE (IF actual_change > speed_diff THEN <<lim[3], "down", actual_change>>
                  ELSE <<>>)
    IN  <<Max(0, Min(100, current_speed + actual_change)), smoothing_info>>

\* _calculate_smoothed_speed annotating every change, limited or not
CalculateSmoothedSpeedAnnotatesAll(current_speed, target_speed, fan, cfg) ==
    IF current_speed = target_speed THEN <<target_speed, <<>> >>
    ELSE
        LET lim == StepLimits(fan, cfg)
            speed_diff == target_speed - current_speed
            actual_change == IF speed_diff > 0 THEN Min(speed_diff, lim[1])
                             ELSE Max(speed_diff, -lim[2])
            smoothing_info == <<lim[3], IF speed_diff > 0 THEN "up" ELSE "down", actual_change>>
        IN  <<Max(0, Min(100, current_speed + actual_change)), smoothing_info>>

\* _calculate_smoothed_speed: <<final_speed, smoothing_info>>
CalculateSmoothedSpeed(current_speed, target_speed, fan, cfg) ==
    IF current_speed = target_speed THEN <<target_speed, <<>> >>
    ELSE
        LET lim == StepLimits(fan, cfg)
            speed_diff == target_speed - current_speed
            actual_change == IF speed_diff > 0 THEN Min(speed_diff, lim[1])
                             ELSE Max(speed_diff, -lim[2])
            smoothing_info ==
                IF speed_diff > 0
                THEN (IF actual_change < speed_diff THEN <<lim[3], "up", actual_change>>
                      ELSE <<>>)
                ELSE (IF actual_change > speed_diff THEN <<lim[3], "down", actual_change>>
                      ELSE <<>>)
            final_speed == Max(0, Min(100, current_speed + actual_change))
        IN  <<final_speed, smoothing_info>>

\* previous_fan_speeds.get(fan_name, target_speed)
PrevGet(prev, fan, default) == IF fan \in DOMAIN prev THEN prev[fan] ELSE default

\* prev[fan] = value on a dict
PrevSet(prev, fan, value) ==
    [f \in (DOMAIN prev) \cup {fan} |-> IF f = fan THEN value ELSE prev[f]]

\* _apply_smoothing over the reasons list from index i on:
\* [reasons |-> the smoothed list, prev |-> the updated previous_fan_speeds]
RECURSIVE ApplySmoothing(_, _, _, _)
ApplySmoothing(rs, i, prev, cfg) ==
    IF i > Len(rs) THEN [reasons |-> <<>>, prev |-> prev]
    ELSE
        LET r == rs[i]
            current_speed == PrevGet(prev, r.fan_name, r.speed_percent)
            sm == CalculateSmoothedSpeed(current_speed, r.speed_percent, r.fan_name, cfg)
            smoothed == Reason(r.fan_name, sm[1], r.reason, sm[2], cfg)
            rest == ApplySmoothing(rs, i + 1, PrevSet(prev, r.fan_name, sm[1]), cfg)
        IN  [reasons |-> <<smoothed>> \o rest.reasons, prev |-> rest.prev]

\* calculate_fan_speeds: [targets, reasons, prev]
CalculateFanSpeeds(st, prev, cfg) ==
    LET d == PolicyDecisions(st, cfg)
        raw == [i \in 1..4 |-> Reason(FanOrder[i], d[i][1], d[i][2], <<>>, cfg)]
        sm == IF cfg.smoothing_enabled THEN ApplySmoothing(raw, 1, prev, cfg)
              ELSE [reasons |-> raw, prev |-> prev]
    IN  [targets |-> [f \in Fans |-> d[CHOOSE i \in 1..4 : FanOrder[i] = f][1]],
         reasons |-> sm.reasons,
         prev |-> sm.prev]

\* _initialize_fan_speeds recording the GPU fans only
InitializeFanSpeedsGpuOnly(duties, cfg) ==
    IF ~cfg.smoothing_enabled THEN <<>>
    ELSE [f \in {"gpu1", "gpu2"} |-> IntDiv(duties[f] * 100, cfg.pwm_max)]

\* _initialize_fan_speeds: the percents of the duty values read at start-up
InitializeFanSpeeds(duties, cfg) ==
    IF ~cfg.smoothing_enabled THEN <<>>
    ELSE [f \in Fans |-> IntDiv(duties[f] * 100, cfg.pwm_max)]

-----------------------------------------------------------------------------
(* Configurations and readings the runs are drawn from *)

\* config.yaml's thresholds as the code's comments give them (CPU 40-60 C from 50 %,
\* GPU 40-60 C, GPU critical 60 C, 100 W and 80 W), and two variants: a critical
\* temperature above the linear zone, and one inside it.
ThresholdsA ==
    [cpu_min_temp |-> 400, cpu_max_temp |-> 600, cpu_min_speed |-> 50,
     gpu_min_temp |-> 400, gpu_max_temp |-> 600, gpu_critical_temp |-> 600,
     vrm_cpu_temp_threshold |-> 500, vrm_gpu_temp_threshold |-> 500,
     vrm_default_speed |-> 30,
     gpu_critical_power |-> 100, vrm_activation_power |-> 80]

ThresholdsB ==
    [cpu_min_temp |-> 350, cpu_max_temp |-> 650, cpu_min_speed |-> 30,
     gpu_min_temp |-> 400, gpu_max_temp |-> 600, gpu_critical_temp |-> 700,
     vrm_cpu_temp_threshold |-> 550, vrm_gpu_temp_threshold |-> 750,
     vrm_default_speed |-> 40,
     gpu_critical_power |-> 120, vrm_activation_power |-> 90]

ThresholdsC ==
    [cpu_min_temp |-> 400, cpu_max_temp |-> 600, cpu_min_speed |-> 50,
     gpu_min_temp |-> 400, gpu_max_temp |-> 600, gpu_critical_temp |-> 550,
     vrm_cpu_temp_threshold |-> 500, vrm_gpu_temp_threshold |-> 500,
     vrm_default_speed |-> 30,
     gpu_critical_power |-> 100, vrm_activation_power |-> 80]

\* The smoothing limits the code defaults to (smoothing_config.get(..., default)).
LimitsDefault ==
    [cpu_max_change_up |-> 100, cpu_max_change_down |-> 100,
     gpu_max_change_up |-> 20, gpu_max_change_down |-> 5,
     vrm_max_change_up |-> 15, vrm_max_change_down |-> 8]

\* The defaults the code substitutes on a read error: 50.0 C for the CPU, 40.0 C
\* and 50.0 W for a GPU.
DefaultCpuTemp == 500

DefaultGpuTemp == 400

DefaultGpuPower == 50

\* A configuration: thresholds, limits, the control section and the facts of the
\* environment that stay fixed for a run: the mode argument, whether psutil lacks
\* coretemp and k10temp so that _read_hwmon_temp is used, which fans have an
\* enable file, and what the sensors deliver during the run (CPU temperatures, and
\* <<temperature, power>> of GPU 1 and of GPU 2).
MakeConfig(thr, lim, mode, smoothing, hwmon, enables, cpus, gpus1, gpus2) ==
    thr @@ lim @@
    [mode |-> mode, smoothing_enabled |-> smoothing, hwmon_fallback |-> hwmon,
     has_enable |-> [f \in Fans |-> f \in enables],
     cpu_readings |-> cpus, gpu1_readings |-> gpus1, gpu2_readings |-> gpus2,
     pwm_max |-> 255, update_interval |-> 2]

\* The runs of the whole program: a machine under load (both GPUs above the
\* critical power), its fans found at full duty.
MainConfigs ==
    {MakeConfig(ThresholdsA, LimitsDefault, m, TRUE, h, e, {DefaultCpuTemp, 650},
                {<<650, 120>>}, {<<650, 120>>}) :
        m \in {"control", "monitor"}, h \in BOOLEAN, e \in {Fans, Fans \ {"vrm"}}}

\* Duty values found in the fans' files at start-up.
MainInitDuties == {[f \in Fans |-> 255]}

-----------------------------------------------------------------------------
(* The interpreter's frames *)

\* The executing frame: fn is "main" (control_mode / monitor_mode), "signal"
\* (_signal_handler), "atexit" (_emergency_shutdown) or "none" (the process is over).
Frame(fn, pc, i) == [fn |-> fn, pc |-> pc, i |-> i]

Exited == frame.fn = "none"

Alive == ~Exited

InMain(pc) == frame.fn = "main" /\ frame.pc = pc

InShutdown(pc) == frame.fn \in {"signal", "atexit"} /\ frame.pc = pc

NoStatus == [cpu_temp |-> 0, gpu1_temp |-> 0, gpu2_temp |-> 0, gpu1_power |-> 0, gpu2_power |-> 0]

\* GPUFanController.__init__ for the given configurations and start-up duties
InitWith(configs, initDuties) ==
    /\ config \in configs
    /\ \E duties \in initDuties :
          /\ pwm = duties
          /\ previous_fan_speeds = InitializeFanSpeeds(duties, config)
    /\ pwm_enable = [f \in Fans |-> IF config.has_enable[f] THEN 2 ELSE 0]
    /\ shutdown_requested = FALSE
    /\ cpu_temp = 0
    /\ status = NoStatus
    /\ targets = [f \in Fans |-> 0]
    /\ reasons = <<>>
    /\ frame = Frame("main", "while", 0)
    /\ below = "none"
    /\ signals = 0
    /\ runs = 0
    /\ dones = 0
    /\ attMax = {}
    /\ attRel = {}
    /\ okRel = {}
    /\ wrote = FALSE

\* GPUFanController.__init__ followed by main()'s call of control_mode / monitor_mode
Init == InitWith(MainConfigs, MainInitDuties)

actuators == <<pwm, pwm_enable, wrote, okRel>>

tick == <<cpu_temp, status, targets, reasons, previous_fan_speeds>>

history == <<signals, runs, dones, attMax, attRel>>

-----------------------------------------------------------------------------
(* The control loop: control_mode and monitor_mode *)

\* The end of the main function without a registered exit hook
MainEndsNoHook == Frame("none", "exited", 0)

\* The main function is over (it returned, or an exception left it): the
\* interpreter calls the exit hook.
MainEnds == Frame("atexit", "check", 0)

\* while not self._shutdown_requested
LoopCheck ==
    /\ InMain("while")
    /\ frame' = IF shutdown_requested THEN MainEnds ELSE Frame("main", "read_cpu", 0)
    /\ UNCHANGED <<config, shutdown_requested, below, tick, actuators, history>>

\* get_system_status, first part: _get_cpu_temperature up to the hwmon fallback
ReadCpu ==
    /\ InMain("read_cpu")
    /\ IF config.hwmon_fallback
       THEN /\ frame' = Frame("main", "hwmon", 0)
            /\ UNCHANGED cpu_temp
       ELSE /\ frame' = Frame("main", "read_gpu", 0)
            /\ cpu_temp' \in config.cpu_readings
    /\ UNCHANGED <<config, shutdown_requested, below, status, targets, reasons,
                   previous_fan_speeds, actuators, history>>

\* _read_hwmon_temp: the body of its try block
ReadHwmon ==
    /\ InMain("hwmon")
    /\ cpu_temp' \in config.cpu_readings
    /\ frame' = Frame("main", "read_gpu", 0)
    /\ UNCHANGED <<config, shutdown_requested, below, status, targets, reasons,
                   previous_fan_speeds, actuators, history>>

\* get_system_status, second part: _get_gpu_info twice, the SystemStatus
ReadGpu ==
    /\ InMain("read_gpu")
    /\ \E g1 \in config.gpu1_readings, g2 \in config.gpu2_readings :
          status' = [cpu_temp |-> cpu_temp, gpu1_temp |-> g1[1], gpu2_temp |-> g2[1],
                     gpu1_power |-> g1[2], gpu2_power |-> g2[2]]
    /\ cpu_temp' = 0
    /\ frame' = Frame("main", "calc", 0)
    /\ UNCHANGED <<config, shutdown_requested, below, targets, reasons,
                   previous_fan_speeds, actuators, history>>

\* calculate_fan_speeds(status)
Calculate ==
    /\ InMain("calc")
    /\ LET c == CalculateFanSpeeds(status, previous_fan_speeds, config)
       IN  /\ targets' = c.targets
           /\ reasons' = c.reasons
           /\ previous_fan_speeds' = c.prev
    /\ frame' = IF config.mode = "control" THEN Frame("main", "apply_enable", 1)
                ELSE Frame("main", "sleep", 0)
    /\ UNCHANGED <<config, shutdown_requested, below, cpu_temp, status, actuators, history>>

\* apply_fan_speeds leaving its loop after the first fan it handled
AfterApplyFirstOnly(i) == Frame("main", "sleep", 0)

\* Where apply_fan_speeds goes after the fan at index i
AfterApply(i) ==
    IF i < Len(reasons) THEN Frame("main", "apply_enable", i + 1) ELSE Frame("main", "sleep", 0)

\* apply_fan_speeds, one fan, going on to the duty write whether or not the write
\* of '1' to the enable file succeeded
ApplyEnableDutyAnyway ==
    /\ InMain("apply_enable")
    /\ LET f == reasons[frame.i].fan_name
       IN  IF config.has_enable[f]
           THEN /\ wrote' = TRUE
                /\ \E ok \in BOOLEAN :
                      pwm_enable' = IF ok THEN [pwm_enable EXCEPT ![f] = 1] ELSE pwm_enable
           ELSE UNCHANGED <<pwm_enable, wrote>>
    /\ frame' = Frame("main", "apply_duty", frame.i)
    /\ UNCHANGED <<config, shutdown_requested, below, tick, pwm, okRel, history>>

\* apply_fan_speeds, one fan: the write of '1' to its enable file
ApplyEnable ==
    /\ InMain("apply_enable")
    /\ LET f == reasons[frame.i].fan_name
       IN  IF config.has_enable[f]
           THEN /\ wrote' = TRUE
                /\ \E ok \in BOOLEAN :
                      IF ok
                      THEN /\ pwm_enable' = [pwm_enable EXCEPT ![f] = 1]
                           /\ frame' = Frame("main", "apply_duty", frame.i)
                      ELSE /\ pwm_enable' = pwm_enable
                           /\ frame' = AfterApply(frame.i)
           ELSE /\ frame' = Frame("main", "apply_duty", frame.i)
                /\ UNCHANGED <<pwm_enable, wrote>>
    /\ UNCHANGED <<config, shutdown_requested, below, tick, pwm, okRel, history>>

\* apply_fan_speeds, one fan: the write of the duty value
ApplyDuty ==
    /\ InMain("apply_duty")
    /\ LET r == reasons[frame.i]
       IN  \E ok \in BOOLEAN :
              pwm' = IF ok THEN [pwm EXCEPT ![r.fan_name] = r.pwm_value] ELSE pwm
    /\ wrote' = TRUE
    /\ frame' = AfterApply(frame.i)
    /\ UNCHANGED <<config, shutdown_requested, below, tick, pwm_enable, okRel, history>>

\* The interruptible sleep: one pass of "for _ in range(update_interval)"
Sleep ==
    /\ InMain("sleep")
    /\ frame' = IF frame.i >= config.update_interval \/ shutdown_requested
                THEN Frame("main", "while", 0)
                ELSE Frame("main", "sleep", frame.i + 1)
    /\ UNCHANGED <<config, shutdown_requested, below, tick, actuators, history>>

\* An exception the loop does not handle (its only handler is for KeyboardInterrupt)
\* leaves the tick: the main function is over.
LoopError ==
    /\ frame.fn = "main" /\ frame.pc \in {"read_gpu", "calc"}
    /\ frame' = MainEnds
    /\ UNCHANGED <<config, shutdown_requested, below, tick, actuators, history>>

-----------------------------------------------------------------------------
(* The shutdown path *)

\* What a SystemExit raised by a handler started now will meet. A handler that is
\* itself interrupted lets it through ("except Exception" does not catch it), so
\* what counts is the frame at the bottom: the bare except of _read_hwmon_temp
\* catches it ("hwmon"), any other place of the main function lets it end main
\* ("sleep" for the inter-tick sleep, "main" elsewhere), the exit hook ends with
\* it ("atexit").
Interrupted ==
    IF frame.fn = "signal" THEN below
    ELSE IF frame.fn = "atexit" THEN "atexit"
    ELSE IF frame.pc = "hwmon" THEN "hwmon"
    ELSE IF frame.pc = "sleep" THEN "sleep"
    ELSE "main"

\* _signal_handler that sets the flag and returns to what it interrupted
SignalFlagOnly ==
    /\ Alive
    /\ signals < MaxSignals
    /\ signals' = signals + 1
    /\ shutdown_requested' = TRUE
    /\ UNCHANGED <<config, frame, below, tick, actuators, runs, dones, attMax, attRel>>

\* Delivery of SIGTERM / SIGINT between two steps of whatever is executing:
\* _signal_handler starts on top of it, sets the flag and enters _graceful_shutdown.
Signal ==
    /\ Alive
    /\ signals < MaxSignals
    /\ signals' = signals + 1
    /\ shutdown_requested' = TRUE
    /\ below' = Interrupted
    /\ frame' = Frame("signal", "max_enable", 1)
    /\ runs' = runs + 1
    /\ attMax' = {}
    /\ attRel' = {}
    /\ okRel' = {}
    /\ UNCHANGED <<config, tick, pwm, pwm_enable, wrote, dones>>

\* _emergency_shutdown, the exit hook: its test of the flag
AtexitCheck ==
    /\ InShutdown("check")
    /\ IF shutdown_requested
       THEN /\ frame' = Frame("none", "exited", 0)
            /\ UNCHANGED <<runs, attMax, attRel, okRel>>
       ELSE /\ frame' = Frame("atexit", "max_enable", 1)
            /\ runs' = runs + 1
            /\ attMax' = {}
            /\ attRel' = {}
            /\ okRel' = {}
    /\ UNCHANGED <<config, shutdown_requested, below, tick, pwm, pwm_enable, wrote,
                   signals, dones>>

\* _set_all_fans_max leaving its loop after the first fan
AfterMaxFirstOnly(fn, i) == Frame(fn, "settle", 0)

\* _graceful_shutdown going from _set_all_fans_max straight to the release
AfterMaxNoSettle(fn, i) ==
    IF i < Len(FanOrder) THEN Frame(fn, "max_enable", i + 1) ELSE Frame(fn, "restore", 1)

\* Where _set_all_fans_max goes after the fan at index i: the next fan, or time.sleep(3)
AfterMax(fn, i) ==
    IF i < Len(FanOrder) THEN Frame(fn, "max_enable", i + 1) ELSE Frame(fn, "settle", 0)

\* _set_all_fans_max, one fan: the write of '1' to its enable file
MaxEnable ==
    /\ InShutdown("max_enable")
    /\ LET f == FanOrder[frame.i]
       IN  /\ attMax' = attMax \cup {f}
           /\ IF config.has_enable[f]
              THEN /\ wrote' = TRUE
                   /\ \E ok \in BOOLEAN :
                         IF ok
                         THEN /\ pwm_enable' = [pwm_enable EXCEPT ![f] = 1]
                              /\ frame' = Frame(frame.fn, "max_duty", frame.i)
                         ELSE /\ pwm_enable' = pwm_enable
                              /\ frame' = AfterMax(frame.fn, frame.i)
              ELSE /\ frame' = Frame(frame.fn, "max_duty", frame.i)
                   /\ UNCHANGED <<pwm_enable, wrote>>
    /\ UNCHANGED <<config, shutdown_requested, below, tick, pwm, okRel,
                   signals, runs, dones, attRel>>

\* _set_all_fans_max, one fan: the write of pwm_max
MaxDuty ==
    /\ InShutdown("max_duty")
    /\ \E ok \in BOOLEAN :
          pwm' = IF ok THEN [pwm EXCEPT ![FanOrder[frame.i]] = config.pwm_max] ELSE pwm
    /\ wrote' = TRUE
    /\ frame' = AfterMax(frame.fn, frame.i)
    /\ UNCHANGED <<config, shutdown_requested, below, tick, pwm_enable, okRel, history>>

\* _graceful_shutdown: time.sleep(3)
Settle ==
    /\ InShutdown("settle")
    /\ frame' = Frame(frame.fn, "restore", 1)
    /\ UNCHANGED <<config, shutdown_requested, below, tick, actuators, history>>

\* _restore_fan_auto_control starting over instead of returning
AfterRestoreAgain(fn, i) ==
    IF i < Len(FanOrder) THEN Frame(fn, "restore", i + 1) ELSE Frame(fn, "restore", 1)

\* Where _restore_fan_auto_control goes after the fan at index i: the next fan, or
\* back to _graceful_shutdown, which logs its completion and returns
AfterRestore(fn, i) ==
    IF i < Len(FanOrder) THEN Frame(fn, "restore", i + 1) ELSE Frame(fn, "exit", 0)

\* _restore_fan_auto_control, one fan: the write of '2' to its enable file
Restore ==
    /\ InShutdown("restore")
    /\ LET f == FanOrder[frame.i]
           nxt == AfterRestore(frame.fn, frame.i)
       IN  /\ attRel' = attRel \cup {f}
           /\ frame' = nxt
           /\ dones' = IF nxt.pc = "exit" THEN dones + 1 ELSE dones
           /\ IF config.has_enable[f]
              THEN /\ wrote' = TRUE
                   /\ \E ok \in BOOLEAN :
                         /\ pwm_enable' = IF ok THEN [pwm_enable EXCEPT ![f] = 2] ELSE pwm_enable
                         /\ okRel' = IF ok THEN okRel \cup {f} ELSE okRel
              ELSE UNCHANGED <<pwm_enable, wrote, okRel>>
    /\ UNCHANGED <<config, shutdown_requested, below, tick, pwm, signals, runs, attMax>>

\* _signal_handler: sys.exit(0) after _graceful_shutdown has returned. The
\* SystemExit passes the interrupted handlers, then either is caught in
\* _read_hwmon_temp, which returns its default to get_system_status, or ends the
\* main function, or ends the exit hook and with it the process.
SysExit ==
    /\ frame.fn = "signal" /\ frame.pc = "exit"
    /\ frame' = IF below = "hwmon" THEN Frame("main", "read_gpu", 0)
                ELSE IF below \in {"main", "sleep"} THEN MainEnds
                ELSE Frame("none", "exited", 0)
    /\ cpu_temp' = IF below = "hwmon" THEN DefaultCpuTemp ELSE cpu_temp
    /\ below' = "none"
    /\ UNCHANGED <<config, shutdown_requested, status, targets, reasons,
                   previous_fan_speeds, actuators, history>>

\* _emergency_shutdown returns: the process is over
AtexitReturn ==
    /\ frame.fn = "atexit" /\ frame.pc = "exit"
    /\ frame' = Frame("none", "exited", 0)
    /\ UNCHANGED <<config, shutdown_requested, below, tick, actuators, history>>

-----------------------------------------------------------------------------
(* The program *)

Next ==
    \/ LoopCheck
    \/ ReadCpu
    \/ ReadHwmon
    \/ ReadGpu
    \/ Calculate
    \/ ApplyEnable
    \/ ApplyDuty
    \/ Sleep
    \/ LoopError
    \/ Signal
    \/ AtexitCheck
    \/ MaxEnable
    \/ MaxDuty
    \/ Settle
    \/ Restore
    \/ SysExit
    \/ AtexitReturn

Spec == Init /\ [][Next]_vars

\* The interpreter executes the main thread one step after the other: a handler
\* or an exit hook that is inside _graceful_shutdown goes on to its next step.
\* Signals and errors are events of the environment and need not occur.
ShutdownStep == MaxEnable \/ MaxDuty \/ Settle \/ Restore

\* The runs in which _read_hwmon_temp is used and every fan has an enable file.
FairConfigs == {c \in MainConfigs : c.hwmon_fallback /\ \A f \in Fans : c.has_enable[f]}

FairInit == InitWith(FairConfigs, MainInitDuties)

FairSpec == FairInit /\ [][Next]_vars /\ WF_vars(ShutdownStep)

\* The runs of control mode on the machine under load whose CPU fan is found at
\* 20 % (duty 51), the other fans at full duty: the first tick raises the CPU fan
\* to 100 %.
EnforceConfigs ==
    {MakeConfig(ThresholdsA, LimitsDefault, "control", TRUE, TRUE, Fans,
                {650}, {<<650, 120>>}, {<<650, 120>>})}

EnforceInitDuties == {[f \in Fans |-> IF f = "cpu" THEN 51 ELSE 255]}

EnforceInit == InitWith(EnforceConfigs, EnforceInitDuties)

EnforceSpec == EnforceInit /\ [][Next]_vars

-----------------------------------------------------------------------------
(* calculate_fan_speeds on its own *)

\* The configurations for the policy: smoothing disabled, so that the reasons are
\* the policy's decisions; each threshold set with readings on, beside and between
\* its thresholds.
PolicyCpuTemps == {350, 400, 401, 455, 500, 550, 599, 600, 650}

PolicyGpu1Infos ==
    {<<300, 50>>, <<450, 85>>, <<550, 50>>, <<599, 100>>, <<600, 50>>, <<700, 50>>}

PolicyGpu2Infos == {<<300, 50>>, <<450, 125>>, <<650, 50>>}

PolicyConfigs ==
    {MakeConfig(thr, LimitsDefault, "monitor", FALSE, FALSE, Fans,
                PolicyCpuTemps, PolicyGpu1Infos, PolicyGpu2Infos) :
        thr \in {ThresholdsA, ThresholdsB, ThresholdsC}}

\* The configurations for the smoothing engine: the default limits, GPU 1 moving
\* between cool, warm and critical, GPU 2 cool.
SmoothConfigs ==
    {MakeConfig(ThresholdsB, LimitsDefault, "monitor", TRUE, FALSE, Fans,
                {450}, {<<300, 50>>, <<580, 50>>, <<720, 50>>}, {<<300, 50>>})}

\* Start-up duties for the smoothing engine: 20 % and 100 %.
SmoothInitDuties == {[f \in Fans |-> d] : d \in {51, 255}}

\* A run with constant readings: GPU 1 stays at 58 C (target 90 %), its fan is
\* found at 20 %, the VRM fan at 100 %.
SteadyConfigs ==
    {MakeConfig(ThresholdsB, LimitsDefault, "monitor", TRUE, FALSE, Fans,
                {450}, {<<580, 50>>}, {<<300, 50>>})}

SteadyInitDuties == {[f \in Fans |-> IF f = "vrm" THEN 255 ELSE 51]}

TickInit ==
    \/ InitWith(PolicyConfigs, {[f \in Fans |-> 0]})
    \/ InitWith(SmoothConfigs, SmoothInitDuties)
    \/ InitWith(SteadyConfigs, SteadyInitDuties)

\* One call of calculate_fan_speeds on a snapshot the sensors can deliver
Decide ==
    \E c \in config.cpu_readings, g1 \in config.gpu1_readings, g2 \in config.gpu2_readings :
        LET st == [cpu_temp |-> c, gpu1_temp |-> g1[1], gpu2_temp |-> g2[1],
                   gpu1_power |-> g1[2], gpu2_power |-> g2[2]]
            r == CalculateFanSpeeds(st, previous_fan_speeds, config)
        IN  /\ status' = st
            /\ targets' = r.targets
            /\ reasons' = r.reasons
            /\ previous_fan_speeds' = r.prev
            /\ UNCHANGED <<config, shutdown_requested, cpu_temp, frame, below,
                           actuators, history>>

TickNext == Decide

TickSpec == TickInit /\ [][TickNext]_vars

-----------------------------------------------------------------------------
(* Properties of the shutdown path *)

HasToggle == {f \in Fans : config.has_enable[f]}

\* C1: when the process has ended, every fan whose release write succeeded (in the
\* latest run of the shutdown sequence) is in automatic mode.
C1_ReleasedStayAutomatic ==
    Exited => \A f \in okRel : pwm_enable[f] = 2

\* C2: whatever termination triggers arrive, the shutdown sequence is entered at
\* most once, and a process that ended after a signal has run it exactly once.
C2_ShutdownExactlyOnce ==
    /\ runs <= 1
    /\ (Exited /\ signals > 0) => (runs = 1 /\ dones = 1)

\* C3: in a run of the shutdown sequence, whichever writes fail, the settle delay
\* is reached only after the force-max write was attempted for every fan, and the
\* sequence completes only after the release was attempted for every fan.
C3_EveryActuatorAttempted ==
    /\ (frame.fn \in {"signal", "atexit"} /\ frame.pc \in {"settle", "restore", "exit"})
           => attMax = Fans
    /\ (frame.fn \in {"signal", "atexit"} /\ frame.pc = "exit") => attRel = Fans

\* C3's case: a run has completed in which the manual-mode write of cpu failed,
\* the release writes of cpu and gpu1 failed (gpu1 stays manual), gpu2's succeeded.
C3_Witness ==
    /\ frame.pc = "exit"
    /\ config.mode = "monitor"
    /\ signals = 1
    /\ HasToggle = Fans
    /\ okRel = {"gpu2"}
    /\ pwm_enable["cpu"] = 2
    /\ pwm_enable["gpu1"] = 1
    /\ attMax = Fans
    /\ attRel = Fans

\* C4: once the shutdown sequence has been entered, it is eventually completed.
C4_ShutdownReachesDone == (runs > 0) ~> (dones > 0)

\* C4's case: the sequence has completed although every write it issued failed
\* (no fan was ever put in manual mode and none was released).
C4_Witness ==
    /\ dones > 0
    /\ config.mode = "monitor"
    /\ HasToggle = Fans
    /\ okRel = {}
    /\ \A f \in Fans : pwm_enable[f] = 2
    /\ wrote

\* C5: in monitor mode no write to an actuator file is ever issued.
C5_ObserveNeverWrites == config.mode = "monitor" => ~wrote

\* C16: within one run of the shutdown sequence, a release is attempted (and a fan
\* is switched to automatic) only in the release step, which is entered only from
\* the settle delay and only after the force-max write was attempted for every
\* fan; and once the settle delay is reached that run attempts no force-max write.
C16_MaxThenSettleThenRelease ==
    [][/\ (attRel' # attRel /\ attRel' # {}) => (InShutdown("restore") /\ attMax = Fans)
       /\ (\E f \in Fans : pwm_enable'[f] = 2 /\ pwm_enable[f] # 2)
              => (InShutdown("restore") /\ attMax = Fans)
       /\ (frame'.pc = "restore" /\ frame.pc # "restore")
              => (InShutdown("settle") /\ attMax = Fans /\ attRel = {})
       /\ (frame.pc \in {"settle", "restore", "exit"} /\ runs' = runs)
              => (attMax' = attMax /\ frame'.pc \notin {"max_enable", "max_duty"})]_vars

\* C16's case: a run in the middle of its release step: every force-max write
\* was attempted and done, cpu and gpu1 are released, gpu2 and vrm still manual.
C16_Witness ==
    /\ frame = Frame("signal", "restore", 3)
    /\ signals = 1
    /\ HasToggle = Fans
    /\ attMax = Fans
    /\ attRel = {"cpu", "gpu1"}
    /\ okRel = {"cpu", "gpu1"}
    /\ pwm_enable = [f \in Fans |-> IF f \in {"cpu", "gpu1"} THEN 2 ELSE 1]

\* C18: once a run of the shutdown sequence has completed, no further run is
\* started, and neither a signal handler nor the exit hook writes a duty value or
\* a mode again.
C18_NoOpAfterDone ==
    [][dones >= 1 =>
          /\ runs' = runs
          /\ frame.fn \in {"signal", "atexit"} =>
                (pwm' = pwm /\ pwm_enable' = pwm_enable /\ attMax' = attMax)]_vars

-----------------------------------------------------------------------------
(* Properties of the smoothing engine and of the speed policy *)

\* The larger of the two step limits of the fan's zone, from the configuration
ZoneMaxStep(f) ==
    IF f = "cpu" THEN Max(config.cpu_max_change_up, config.cpu_max_change_down)
    ELSE IF f = "vrm" THEN Max(config.vrm_max_change_up, config.vrm_max_change_down)
    ELSE Max(config.gpu_max_change_up, config.gpu_max_change_down)

\* C6: in every tick and for every fan, the smoothed speed is within 0..100, is
\* what the smoothing state then holds, and differs from the value the smoothing
\* state held before the tick by at most the larger step limit of the fan's zone.
C6_SmoothingBounded ==
    [][config.smoothing_enabled =>
          \A i \in 1..Len(reasons') :
              LET f == reasons'[i].fan_name
                  applied == reasons'[i].speed_percent
              IN  /\ applied \in 0..100
                  /\ previous_fan_speeds'[f] = applied
                  /\ Abs(applied - previous_fan_speeds[f]) <= ZoneMaxStep(f)]_vars

\* C6's case: the first tick of a GPU fan found at 20 % whose target is 90 %: it
\* is moved to 40 % and annotated.
C6_Witness ==
    /\ config.smoothing_enabled
    /\ reasons # <<>>
    /\ targets["gpu1"] = 90
    /\ reasons[2].speed_percent = 40
    /\ reasons[2].info # <<>>
    /\ previous_fan_speeds["gpu1"] = 40

\* v is the zone-local speed of a GPU at temperature t: 0 at or below the minimum,
\* 100 at or above the maximum, the truncated interpolation in between
GpuZoneLocal(t, v) ==
    IF t <= config.gpu_min_temp THEN v = 0
    ELSE IF t >= config.gpu_max_temp THEN v = 100
    ELSE LET width == config.gpu_max_temp - config.gpu_min_temp
             rise == (t - config.gpu_min_temp) * 100
         IN  v * width <= rise /\ rise < (v + 1) * width

\* C7: if either GPU is at or above the critical temperature both GPU targets are
\* 100; otherwise each GPU target is the zone-local speed of its own GPU.
C7_GpuTargets ==
    reasons # <<>> =>
        IF \/ status.gpu1_temp >= config.gpu_critical_temp
           \/ status.gpu2_temp >= config.gpu_critical_temp
        THEN targets["gpu1"] = 100 /\ targets["gpu2"] = 100
        ELSE /\ GpuZoneLocal(status.gpu1_temp, targets["gpu1"])
             /\ GpuZoneLocal(status.gpu2_temp, targets["gpu2"])

\* C7's case: GPU 1 critical, GPU 2 cool, and the fan of GPU 2 forced to 100.
C7_Witness ==
    /\ reasons # <<>>
    /\ status.gpu1_temp >= config.gpu_critical_temp
    /\ status.gpu2_temp <= config.gpu_min_temp
    /\ targets["gpu2"] = 100

\* Either cross-zone override of the CPU fan holds in snapshot st
CpuOverride(st) ==
    \/ st.gpu1_power >= config.gpu_critical_power
    \/ st.gpu2_power >= config.gpu_critical_power
    \/ st.gpu1_temp >= config.gpu_critical_temp
    \/ st.gpu2_temp >= config.gpu_critical_temp

\* C8: the CPU target is 100 whenever a cross-zone override holds, and the
\* decision comes from the CPU's own law exactly when none holds.
C8_CpuOverrides ==
    reasons # <<>> =>
        /\ CpuOverride(status) => targets["cpu"] = 100
        /\ reasons[1].reason \in {"cpu_temp_critical", "cpu_linear", "cpu_min_speed"}
              <=> ~CpuOverride(status)

\* C8's case: a GPU at the critical temperature, both powers below the critical
\* power, the CPU below its minimum temperature, and the CPU target 100.
C8_Witness ==
    /\ reasons # <<>>
    /\ status.gpu1_temp >= config.gpu_critical_temp
    /\ status.gpu1_power < config.gpu_critical_power
    /\ status.gpu2_power < config.gpu_critical_power
    /\ status.cpu_temp < config.cpu_min_temp
    /\ targets["cpu"] = 100

\* C9: the VRM target is 100 exactly when a GPU power, the CPU temperature or a
\* GPU temperature is at or above its VRM threshold, and vrm_default_speed otherwise.
C9_VrmBinary ==
    reasons # <<>> =>
        targets["vrm"] =
            IF \/ status.gpu1_power >= config.vrm_activation_power
               \/ status.gpu2_power >= config.vrm_activation_power
               \/ status.cpu_temp >= config.vrm_cpu_temp_threshold
               \/ status.gpu1_temp >= config.vrm_gpu_temp_threshold
               \/ status.gpu2_temp >= config.vrm_gpu_temp_threshold
            THEN 100
            ELSE config.vrm_default_speed

\* C9's case: the CPU exactly at its VRM threshold, nothing else at a threshold,
\* and the VRM target 100.
C9_Witness ==
    /\ reasons # <<>>
    /\ status.cpu_temp = config.vrm_cpu_temp_threshold
    /\ status.gpu1_power < config.vrm_activation_power
    /\ status.gpu2_power < config.vrm_activation_power
    /\ status.gpu1_temp < config.vrm_gpu_temp_threshold
    /\ status.gpu2_temp < config.vrm_gpu_temp_threshold
    /\ targets["vrm"] = 100

\* C10: with no cross-zone override the CPU target lies in cpu_min_speed..100, and
\* of two snapshots without override the one with the higher CPU temperature has
\* the higher or the same CPU target.
C10_CpuMonotone ==
    [][~CpuOverride(status') =>
          /\ targets'["cpu"] \in config.cpu_min_speed..100
          /\ (reasons # <<>> /\ ~CpuOverride(status) /\ status.cpu_temp <= status'.cpu_temp)
                => targets["cpu"] <= targets'["cpu"]]_vars

\* C10's case: no override, the CPU inside its linear zone, the target strictly
\* between cpu_min_speed and 100.
C10_Witness ==
    /\ reasons # <<>>
    /\ ~CpuOverride(status)
    /\ status.cpu_temp > config.cpu_min_temp
    /\ status.cpu_temp < config.cpu_max_temp
    /\ targets["cpu"] > config.cpu_min_speed
    /\ targets["cpu"] < 100

\* C11: in the CPU linear zone (no override, cpu_min_temp <= t < cpu_max_temp) the
\* CPU target is the integer part of the real-valued interpolation
\* cpu_min_speed + (t - cpu_min_temp) * (100 - cpu_min_speed) / (cpu_max_temp - cpu_min_temp):
\* the largest integer not above it, never the nearest one above it.
C11_CpuLinearTruncates ==
    (/\ reasons # <<>>
     /\ ~CpuOverride(status)
     /\ status.cpu_temp >= config.cpu_min_temp
     /\ status.cpu_temp < config.cpu_max_temp)
    => LET width == config.cpu_max_temp - config.cpu_min_temp
           value == config.cpu_min_speed * width
                      + (status.cpu_temp - config.cpu_min_temp) * (100 - config.cpu_min_speed)
           v == targets["cpu"]
       IN  v >= 0 /\ v * width <= value /\ value < (v + 1) * width

\* C11's case: 55 C between 40 C and 60 C from 50 %: the interpolation is 87.5 and
\* the target 87.
C11_Witness ==
    /\ reasons # <<>>
    /\ ~CpuOverride(status)
    /\ status.cpu_temp = 550
    /\ config.cpu_min_temp = 400
    /\ config.cpu_max_temp = 600
    /\ config.cpu_min_speed = 50
    /\ targets["cpu"] = 87

\* C12 as stated: in every state after initialisation the smoothing state holds an
\* entry for every fan.
C12_EntryForEveryFan == DOMAIN previous_fan_speeds = Fans

\* C12, amended: with smoothing enabled, in every state after initialisation the
\* smoothing state holds an entry for every fan; with smoothing disabled it is
\* never filled (_initialize_fan_speeds returns at once, _apply_smoothing is not
\* called) and stays empty.
C12_EntryForEveryFanIfSmoothing ==
    IF config.smoothing_enabled THEN DOMAIN previous_fan_speeds = Fans
    ELSE DOMAIN previous_fan_speeds = {}

\* C12's case: smoothing enabled, a tick has been computed, and the four entries
\* hold the speeds the tick applied.
C12_Witness ==
    /\ config.smoothing_enabled
    /\ reasons # <<>>
    /\ DOMAIN previous_fan_speeds = Fans
    /\ \A i \in 1..4 : previous_fan_speeds[FanOrder[i]] = reasons[i].speed_percent
    /\ previous_fan_speeds["gpu1"] # targets["gpu1"]

\* C13: a termination signal delivered while the loop is in its inter-tick sleep
\* (at any second of the interval) starts the shutdown sequence at once, and from
\* then on the loop executes nothing: it neither sleeps on nor starts a tick.
C13_SleepInterrupted ==
    [][/\ (InMain("sleep") /\ signals' # signals)
            => /\ frame' = Frame("signal", "max_enable", 1)
               /\ runs' = runs + 1
               /\ below' = "sleep"
       /\ below = "sleep" => frame'.fn # "main"]_vars

\* C13's case: in control mode, one signal was delivered during the sleep after a
\* tick, and the shutdown sequence it started has completed.
C13_Witness ==
    /\ below = "sleep"
    /\ config.mode = "control"
    /\ signals = 1
    /\ reasons # <<>>
    /\ frame = Frame("signal", "exit", 0)
    /\ dones = 1

\* C15: with smoothing enabled, in every tick, for a fan whose target equals the
\* value the smoothing state holds for it, the applied speed is that value, the
\* smoothing state's entry is unchanged and the reason carries no annotation.
C15_SmoothingNoOp ==
    [][config.smoothing_enabled =>
          \A i \in 1..Len(reasons') :
              LET f == reasons'[i].fan_name
              IN  targets'[f] = previous_fan_speeds[f] =>
                      /\ reasons'[i].speed_percent = targets'[f]
                      /\ previous_fan_speeds'[f] = previous_fan_speeds[f]
                      /\ reasons'[i].info = <<>>]_vars

\* C15's case: the first tick after a start at full duty (the VRM fan has made its
\* first step down from 100 to 92), GPU 1 critical: the fan of GPU 1 was at 100,
\* its target is 100, and it is applied at 100 without annotation.
C15_Witness ==
    /\ config.smoothing_enabled
    /\ reasons # <<>>
    /\ previous_fan_speeds["vrm"] = 92
    /\ targets["gpu1"] = 100
    /\ previous_fan_speeds["gpu1"] = 100
    /\ reasons[2].speed_percent = 100
    /\ reasons[2].info = <<>>

\* The step limit of fan f in the direction from speed p to target t
StepToward(f, p, t) ==
    IF t > p THEN StepLimits(f, config)[1] ELSE StepLimits(f, config)[2]

\* In the run with constant readings the VRM fan comes down from 100 % by 8 % per
\* tick until it reaches its default speed: the number of ticks computed so far
\* (exact up to seven ticks)
SteadyTicks == (100 - previous_fan_speeds["vrm"]) \div 8

\* C17: with smoothing enabled, in every tick and for every fan whose step limit
\* toward the target is at least 1, the applied speed lies between the previous
\* speed and the target (no move away, no overshoot) and the distance left to the
\* target is the previous distance less the step limit, or zero; a fan at its
\* target stays there. Hence under a constant target the distance after n ticks
\* is max(0, d - n * limit), zero from tick ceil(d / limit) on. In the run with the
\* constant target 90 and the fan found at 20 with limit 20, the applied speed after
\* n ticks is min(90, 20 + 20 n): 40, 60, 80, 90, and 90 from then on.
C17_ConvergesToTarget ==
    /\ [][config.smoothing_enabled =>
            \A f \in Fans :
                LET p == previous_fan_speeds[f]
                    t == targets'[f]
                    a == previous_fan_speeds'[f]
                    limit == StepToward(f, p, t)
                IN  limit >= 1 =>
                        /\ Min(p, t) <= a /\ a <= Max(p, t)
                        /\ Abs(t - a) = Max(0, Abs(t - p) - limit)]_vars
    /\ [](config \in SteadyConfigs =>
            previous_fan_speeds["gpu1"] = Min(90, 20 + 20 * SteadyTicks))

\* C17's case: the run with the constant target 90, four ticks after the start at
\* 20 (ceil(70 / 20) = 4): the fan of GPU 1 has just arrived at 90.
C17_Witness ==
    /\ config \in SteadyConfigs
    /\ SteadyTicks = 4
    /\ targets["gpu1"] = 90
    /\ previous_fan_speeds["gpu1"] = 90
    /\ reasons[2].speed_percent = 90
    /\ reasons[2].info = <<>>

\* C23: with smoothing enabled, in every tick and for every fan, the reason is
\* annotated exactly when the distance from the previous speed to the target
\* exceeds the zone's step limit in that direction; when it does not, the applied
\* speed is the target and the reason is the policy's, without annotation.
C23_AnnotatedIffLimited ==
    [][config.smoothing_enabled =>
          \A i \in 1..Len(reasons') :
              LET f == reasons'[i].fan_name
                  p == previous_fan_speeds[f]
                  t == targets'[f]
                  limited == Abs(t - p) > StepToward(f, p, t)
              IN  /\ reasons'[i].info # <<>> <=> limited
                  /\ reasons'[i].reason = PolicyDecisions(status', config)[i][2]
                  /\ ~limited => reasons'[i].speed_percent = t]_vars

\* C23's case: a tick in which the fan of GPU 1 comes down from 100 toward the
\* target 0 and is limited to 95, annotated with the step -5, while the CPU fan
\* is applied at its target without annotation.
C23_Witness ==
    /\ config.smoothing_enabled
    /\ reasons # <<>>
    /\ targets["gpu1"] = 0
    /\ reasons[2].speed_percent = 95
    /\ reasons[2].info = <<"GPU", "down", -5>>
    /\ reasons[1].speed_percent = targets["cpu"]
    /\ reasons[1].info = <<>>

-----------------------------------------------------------------------------
(* Properties of the control loop *)

\* The place that follows the fan at index i in a tick of four decisions
NextFanOrSleep(i) ==
    IF i < 4 THEN Frame("main", "apply_enable", i + 1) ELSE Frame("main", "sleep", 0)

\* C14: in a tick of control mode, as long as no signal arrives, whatever the
\* outcome of a write the loop goes on: after the enable write of a fan comes its
\* duty write or (the enable write failed, the fan's duty is left as it was) the
\* next fan, after a duty write the next fan, after the last fan the sleep, after
\* the sleep the loop's test, and from there the next tick.
C14_FailedWriteNonFatal ==
    [][(config.mode = "control" /\ frame.fn = "main" /\ frame'.fn = "main") =>
          /\ frame.pc = "apply_enable" =>
                \/ frame' = Frame("main", "apply_duty", frame.i)
                \/ frame' = NextFanOrSleep(frame.i) /\ pwm' = pwm
          /\ frame.pc = "apply_duty" => frame' = NextFanOrSleep(frame.i)
          /\ frame.pc = "sleep" => frame'.pc \in {"sleep", "while"}
          /\ (frame.pc = "while" /\ ~shutdown_requested) => frame'.pc = "read_cpu"]_vars

\* C14's case: no signal so far, the manual-mode write of cpu has failed in every
\* tick, the other three fans were put in manual mode, and the next tick has begun.
C14_Witness ==
    /\ config.mode = "control"
    /\ signals = 0
    /\ HasToggle = Fans
    /\ frame = Frame("main", "read_cpu", 0)
    /\ pwm_enable["cpu"] = 2
    /\ \A f \in Fans \ {"cpu"} : pwm_enable[f] = 1

\* C19: once a run of the shutdown sequence has been started, the control loop
\* takes no step of a tick: it reads no sensor, computes no decision and issues
\* no write of apply_fan_speeds.
C19_TickAbandoned ==
    [][(runs >= 1 /\ frame.fn = "main" /\ frame'.fn = "main") =>
          frame.pc \notin {"read_cpu", "hwmon", "read_gpu", "calc",
                           "apply_enable", "apply_duty"}]_vars

\* C20: a process that has ended (after a signal, or after the loop was left by an
\* unhandled error so that only the exit hook ran) has entered the shutdown
\* sequence at least once and completed a run of it; and whenever the shutdown
\* flag is set, a run of the sequence has been entered.
C20_EveryExitShutsDown ==
    /\ Exited => (runs >= 1 /\ dones >= 1)
    /\ shutdown_requested => runs >= 1

\* C20's case: the process has ended without any signal: an unhandled error left
\* the loop, the exit hook found the flag unset and ran the sequence once.
C20_Witness ==
    /\ Exited
    /\ signals = 0
    /\ ~shutdown_requested
    /\ runs = 1
    /\ dones = 1
    /\ attMax = Fans
    /\ attRel = Fans

\* C21: in control mode, after every tick (the loop is in its sleep, no shutdown
\* has started) and for every fan, the duty value of the percent held in the
\* smoothing state is the duty value the fan's file holds, that is the one last
\* written successfully, or the one found at start-up.
C21_StateMatchesCommanded ==
    (config.mode = "control" /\ runs = 0 /\ InMain("sleep")) =>
        \A f \in Fans : PercentToPwm(previous_fan_speeds[f], config) = pwm[f]

\* C22: a duty write, in a tick or in the force-max step, is the step that
\* directly follows the manual-mode step of the same fan in the same function,
\* and for a fan that has an enable file that write has succeeded: the fan is in
\* manual mode when its duty is written. After a failed manual-mode write the
\* next step is the next fan, not the duty write.
C22_ManualBeforeDuty ==
    [][/\ frame'.pc = "apply_duty" =>
            /\ frame = Frame("main", "apply_enable", frame'.i)
            /\ frame'.fn = "main"
            /\ LET f == reasons[frame'.i].fan_name
               IN  config.has_enable[f] => (pwm_enable'[f] = 1 /\ wrote')
       /\ frame'.pc = "max_duty" =>
            /\ frame = Frame(frame'.fn, "max_enable", frame'.i)
            /\ LET f == FanOrder[frame'.i]
               IN  config.has_enable[f] => (pwm_enable'[f] = 1 /\ wrote')
       /\ frame.pc = "apply_duty" =>
            (config.has_enable[reasons[frame.i].fan_name]
                => pwm_enable[reasons[frame.i].fan_name] = 1)
       /\ frame.pc = "max_duty" =>
            (config.has_enable[FanOrder[frame.i]] => pwm_enable[FanOrder[frame.i]] = 1)]_vars

\* C22's case: in a tick before any shutdown, the manual-mode write of cpu has
\* failed (cpu is still automatic and its duty write was skipped), that of gpu1
\* has succeeded, and the duty write of gpu1 is the next step.
C22_Witness ==
    /\ frame = Frame("main", "apply_duty", 2)
    /\ runs = 0
    /\ HasToggle = Fans
    /\ pwm_enable["cpu"] = 2
    /\ pwm_enable["gpu1"] = 1
    /\ pwm_enable["gpu2"] = 2

====
